---- MODULE Spec2Model ----
(***************************************************************************)
(* GroupStore (src/lib/db/group-store.ts): the groups table, the           *)
(* group_user association table and the operations of the store.           *)
(*                                                                         *)
(* The store holds no state of its own; its state is the two tables it     *)
(* reads and writes through Knex.  updateGroupUsers runs two statements in *)
(* one transaction, so it is modelled statement by statement, with the     *)
(* transaction's uncommitted writes kept apart from the committed table.   *)
(* Every other operation is one statement and one action.                  *)
(***************************************************************************)
EXTENDS Integers, Sequences, FiniteSets, TLC

----------------------------------------------------------------------------
(* Bounds of the model *)

\* group ids are SERIAL; creation stops once this id has been handed out
MaxGroupId == 2
\* most entries one call names, newUsers and deletableUsers together
MaxBatch == 2

\* the callers: Spec runs caller 1 alone, SpecConc runs both
Procs == {1, 2}
GroupIds == 1..MaxGroupId
\* the users table, which the store only reads
Users == {10, 11}
Types == {"member", "owner"}
Names == {"admins", "devs"}
Descriptions == {"team"}
UserNames == {"sys"}

----------------------------------------------------------------------------
(* Values *)

Ok == "ok"
NotFound == "NotFound"
ConstraintViolation == "ConstraintViolation"
ConnectivityFailure == "ConnectivityFailure"

NoCall == [op |-> "none"]
NoTx == [ins |-> {}, del |-> {}, log |-> <<>>]
NoResult == [status |-> "none", rows |-> {}, present |-> FALSE]
NoPre == [groups |-> {}, members |-> {}]
NoPrior == [again |-> FALSE, kept |-> FALSE, raced |-> FALSE]

Result(status) == [status |-> status, rows |-> {}, present |-> FALSE]
RowsResult(rows) == [status |-> Ok, rows |-> rows, present |-> FALSE]
BoolResult(b) == [status |-> Ok, rows |-> {}, present |-> b]

RECURSIVE SeqsUpTo(_, _)
SeqsUpTo(S, n) ==
    IF n = 0 THEN {<<>>}
    ELSE LET shorter == SeqsUpTo(S, n - 1)
         IN  shorter \cup {Append(s, x) : s \in {t \in shorter : Len(t) = n - 1}, x \in S}

Range(s) == {s[i] : i \in 1..Len(s)}

\* IGroupUserModel: { user: { id }, type }
GroupUserModels == [user : [id : Users], type : Types]
\* IGroupUser: { groupId, userId }
GroupUsers == [groupId : GroupIds, userId : Users]

\* the (newUsers, deletableUsers) arguments of one call, deletableUsers drawn from D
Batches(D) ==
    {c \in [newUsers : SeqsUpTo(GroupUserModels, MaxBatch), deletableUsers : SUBSET D] :
        Len(c.newUsers) + Cardinality(c.deletableUsers) <= MaxBatch}

----------------------------------------------------------------------------
VARIABLES
    groups,     \* the groups table: rows {id, name, description}
    nextId,     \* the SERIAL sequence behind groups.id
    members,    \* the group_user table, committed rows
    pc,         \* per caller: "idle", "insert", "delete", "commit", "done"
    call,       \* per caller: the operation in flight or just returned, with its arguments
    result,     \* per caller: what the operation returned or threw
    tx,         \* per caller: the open transaction's uncommitted writes and statement log
    pre,        \* per caller: both tables as they were when the call started
    prior,      \* per caller: whether the call repeats the call that just succeeded
    created,    \* names given to a create call that succeeded
    named       \* names given to a create or update call that succeeded

vars == <<groups, nextId, members, pc, call, result, tx, pre, prior, created, named>>

----------------------------------------------------------------------------
(* Row mapping *)

NoRow == [id |-> 0, name |-> "", description |-> ""]

\* rows[0] and .first(): the first row of a result, or no row at all
First(rows) == IF rows = {} THEN NoRow ELSE CHOOSE r \in rows : TRUE

\* rowToGroup without its test for a missing row
RowToGroupUnchecked(row) == RowsResult({row})

\* rowToGroup: NotFoundError for a missing row, else the Group built from the row
RowToGroup(row) ==
    IF row = NoRow THEN Result(NotFound)
    ELSE RowsResult({[id |-> row.id, name |-> row.name, description |-> row.description]})

\* rowToGroupUser, applied to the rows of the join
RowToGroupUser(row) == [userId |-> row.user_id, groupId |-> row.group_id, type |-> row.type]

\* groupToRow: the columns create() inserts
GroupToRow(group) == [name |-> group.name, description |-> group.description]

Pair(r) == <<r.group_id, r.user_id>>
Pairs(S) == {Pair(r) : r \in S}

\* the rows with the type column not taken from the user entry
RowsAllMember(groupId, users, userName) ==
    [i \in 1..Len(users) |->
        [group_id |-> groupId, user_id |-> users[i].user.id,
         type |-> "member", created_by |-> userName]]

\* addNewUsersToGroup: the rows built from the newUsers array
Rows(groupId, users, userName) ==
    [i \in 1..Len(users) |->
        [group_id |-> groupId, user_id |-> users[i].user.id,
         type |-> users[i].type, created_by |-> userName]]

\* a delete that matches on user_id alone
DeleteTargetsByUser(table, deletableUsers) ==
    {r \in table : \E d \in deletableUsers : d.userId = r.user_id}

\* deleteOldUsersFromGroup: whereIn(['group_id', 'user_id'], [[groupId, userId], ...])
\* (the value list of whereIn is a set: order and repeats of the array do not matter)
DeleteTargets(table, deletableUsers) ==
    {r \in table : \E d \in deletableUsers : <<d.groupId, d.userId>> = Pair(r)}

----------------------------------------------------------------------------
(* The storage layer's constraints *)

\* groups.name is unique: another row (not row `id`) already has the name
UniqueNameViolation(table, id, name) == \E g \in table : g.name = name /\ g.id # id

\* a group_user table without its primary key
PrimaryKeyNeverViolated(table, rows) == FALSE

\* group_user has one row per (group_id, user_id)
PrimaryKeyViolation(table, rows) ==
    \/ \E i \in 1..Len(rows) : Pair(rows[i]) \in Pairs(table)
    \/ \E i, j \in 1..Len(rows) : i < j /\ Pair(rows[i]) = Pair(rows[j])

\* group_user.group_id references groups(id), group_user.user_id references users(id)
ForeignKeyViolation(grps, rows) ==
    \E i \in 1..Len(rows) :
        \/ rows[i].group_id \notin {g.id : g \in grps}
        \/ rows[i].user_id \notin Users

\* ON DELETE CASCADE: the association rows that go with the deleted groups
Cascade(table, ids) == {r \in table : r.group_id \in ids}

\* an insert that skips rows in conflict (ON CONFLICT DO NOTHING) instead of failing
InsertOutcomeIgnoreConflict(table, grps, rows) ==
    IF ForeignKeyViolation(grps, rows) THEN ConstraintViolation ELSE Ok

\* batchInsert: a plain INSERT of the rows; no statement at all for an empty array
InsertOutcome(table, grps, rows) ==
    IF Len(rows) = 0 THEN Ok
    ELSE IF PrimaryKeyViolation(table, rows) \/ ForeignKeyViolation(grps, rows)
         THEN ConstraintViolation
         ELSE Ok

\* the rows a successful batchInsert adds
Inserted(table, rows) == Range(rows)

----------------------------------------------------------------------------
(* Transactions *)

\* a statement run on this.db although a transaction was passed
StmtViewCommittedOnly(committed, t, transaction) == committed

\* (transaction || this.db): a statement run on the transaction sees the
\* transaction's own uncommitted writes, one run on this.db sees committed rows
StmtView(committed, t, transaction) ==
    IF transaction THEN (committed \ t.del) \cup t.ins ELSE committed

\* COMMIT: the transaction's writes become the committed table
Committed(committed, t) == (committed \ t.del) \cup t.ins

\* a failure after which the writes made so far stay
OnRejectKeepWrites(committed, t) == (committed \ t.del) \cup t.ins

\* db.transaction(handler): a rejected handler or a failed commit rolls back
OnReject(committed, t) == committed

\* the delete issued whatever the insert did (no await on the insert)
AfterInsertAlwaysDelete(ok) == "delete"

\* await addNewUsersToGroup(...); await deleteOldUsersFromGroup(...):
\* the delete is issued only when the awaited insert resolved
AfterInsert(ok) == IF ok THEN "delete" ELSE "rollback"

\* rows that other open transactions have written and not yet committed
OthersInserted(p) == UNION {tx[q].ins : q \in Procs \ {p}}
OthersDeleted(p) == UNION {tx[q].del : q \in Procs \ {p}}

InFlight(p) == pc[p] \in {"insert", "delete", "commit"}

----------------------------------------------------------------------------
(* Initial state: empty tables, no call made *)

Init ==
    /\ groups = {}
    /\ nextId = 1
    /\ members = {}
    /\ pc = [p \in Procs |-> "idle"]
    /\ call = [p \in Procs |-> NoCall]
    /\ result = [p \in Procs |-> NoResult]
    /\ tx = [p \in Procs |-> NoTx]
    /\ pre = [p \in Procs |-> NoPre]
    /\ prior = [p \in Procs |-> NoPrior]
    /\ created = {}
    /\ named = {}

Snapshot == [groups |-> groups, members |-> members]

\* a one-statement operation of caller p returns r
Returns(p, c, r) ==
    /\ pc[p] = "idle"
    /\ pc' = [pc EXCEPT ![p] = "done"]
    /\ call' = [call EXCEPT ![p] = c]
    /\ result' = [result EXCEPT ![p] = r]
    /\ pre' = [pre EXCEPT ![p] = Snapshot]
    /\ prior' = [prior EXCEPT ![p] = NoPrior]
    /\ tx' = [tx EXCEPT ![p] = NoTx]

----------------------------------------------------------------------------
(* Operations on the groups table *)

\* create(group): INSERT ... RETURNING *, id from the sequence
Create(p, group) ==
    /\ nextId <= MaxGroupId
    /\ LET row == [id |-> nextId, name |-> GroupToRow(group).name,
                   description |-> GroupToRow(group).description]
           c == [op |-> "create", name |-> group.name]
       IN  IF UniqueNameViolation(groups, nextId, row.name)
           THEN /\ Returns(p, c, Result(ConstraintViolation))
                /\ UNCHANGED <<groups, nextId, members, created, named>>
           ELSE /\ groups' = groups \cup {row}
                /\ nextId' = nextId + 1
                /\ created' = created \cup {group.name}
                /\ named' = named \cup {group.name}
                /\ Returns(p, c, RowToGroup(First({row})))
                /\ UNCHANGED members

\* update(group): UPDATE ... WHERE id = group.id RETURNING columns; rowToGroup(rows[0])
Update(p, group) ==
    LET hit == {g \in groups : g.id = group.id}
        rows == {[id |-> g.id, name |-> group.name, description |-> group.description] : g \in hit}
        c == [op |-> "update", id |-> group.id, name |-> group.name]
    IN  IF hit # {} /\ UniqueNameViolation(groups, group.id, group.name)
        THEN /\ Returns(p, c, Result(ConstraintViolation))
             /\ UNCHANGED <<groups, nextId, members, created, named>>
        ELSE /\ groups' = (groups \ hit) \cup rows
             /\ named' = IF hit # {} THEN named \cup {group.name} ELSE named
             /\ Returns(p, c, RowToGroup(First(rows)))
             /\ UNCHANGED <<nextId, members, created>>

\* delete(id): DELETE FROM groups WHERE id = ?
Delete(p, id) ==
    /\ groups' = {g \in groups : g.id # id}
    /\ members' = members \ Cascade(members, {id})
    /\ Returns(p, [op |-> "delete", id |-> id], Result(Ok))
    /\ UNCHANGED <<nextId, created, named>>

\* deleteAll(): DELETE FROM groups
DeleteAll(p) ==
    /\ groups' = {}
    /\ members' = members \ Cascade(members, {g.id : g \in groups})
    /\ Returns(p, [op |-> "deleteAll"], Result(Ok))
    /\ UNCHANGED <<nextId, created, named>>

\* get(id): first row WHERE id = ?, through rowToGroup
Get(p, id) ==
    /\ Returns(p, [op |-> "get", id |-> id], RowToGroup(First({g \in groups : g.id = id})))
    /\ UNCHANGED <<groups, nextId, members, created, named>>

\* getAll(): every row through rowToGroup
GetAll(p) ==
    /\ Returns(p, [op |-> "getAll"],
               RowsResult(UNION {RowToGroup(g).rows : g \in groups}))
    /\ UNCHANGED <<groups, nextId, members, created, named>>

\* exists(id): SELECT EXISTS (SELECT 1 FROM groups WHERE id = ?)
Exists(id) == \E g \in groups : g.id = id

\* the lookup made on another text column
ExistsWithNameByDescription(name) == \E g \in groups : g.description = name

\* existsWithName(name): SELECT EXISTS (SELECT 1 FROM groups WHERE name = ?)
ExistsWithName(name) == \E g \in groups : g.name = name

CallExists(p, id) ==
    /\ Returns(p, [op |-> "exists", id |-> id], BoolResult(Exists(id)))
    /\ UNCHANGED <<groups, nextId, members, created, named>>

CallExistsWithName(p, name) ==
    /\ Returns(p, [op |-> "existsWithName", name |-> name], BoolResult(ExistsWithName(name)))
    /\ UNCHANGED <<groups, nextId, members, created, named>>

\* getAllUsersByGroups(groupIds): group_user JOIN users WHERE group_id IN groupIds
GetAllUsersByGroups(p, groupIds) ==
    /\ Returns(p, [op |-> "getAllUsersByGroups", groupIds |-> groupIds],
               RowsResult({RowToGroupUser(r) :
                   r \in {m \in members : m.user_id \in Users /\ m.group_id \in groupIds}}))
    /\ UNCHANGED <<groups, nextId, members, created, named>>

----------------------------------------------------------------------------
(* Operations on the group_user table, outside a transaction *)

\* addNewUsersToGroup(groupId, users, userName) with no transaction: this.db.batchInsert
AddNewUsersToGroup(p, groupId, users, userName) ==
    LET rows == Rows(groupId, users, userName)
        view == StmtView(members, NoTx, FALSE)
    IN  \E status \in {InsertOutcome(view, groups, rows), ConnectivityFailure} :
            /\ members' = IF status = Ok THEN members \cup Inserted(view, rows) ELSE members
            /\ Returns(p, [op |-> "addNewUsersToGroup", groupId |-> groupId, newUsers |-> users],
                       Result(status))
            /\ UNCHANGED <<groups, nextId, created, named>>

\* deleteOldUsersFromGroup(deletableUsers) with no transaction: this.db(...).delete()
DeleteOldUsersFromGroup(p, deletableUsers) ==
    LET view == StmtView(members, NoTx, FALSE)
    IN  \E status \in {Ok, ConnectivityFailure} :
            /\ members' = IF status = Ok THEN members \ DeleteTargets(view, deletableUsers)
                          ELSE members
            /\ Returns(p, [op |-> "deleteOldUsersFromGroup", deletableUsers |-> deletableUsers],
                       Result(status))
            /\ UNCHANGED <<groups, nextId, created, named>>

----------------------------------------------------------------------------
(* updateGroupUsers: db.transaction(insert; delete), one statement per step *)

Logged(t, stmt, ok) == [t EXCEPT !.log = Append(@, [stmt |-> stmt, ok |-> ok])]

\* the call starts: the transaction is opened, nothing is written yet
UpdateGroupUsers(p, groupId, newUsers, deletableUsers, userName) ==
    /\ pc[p] \in {"idle", "done"}
    /\ pc' = [pc EXCEPT ![p] = "insert"]
    /\ call' = [call EXCEPT ![p] =
                   [op |-> "updateGroupUsers", groupId |-> groupId, newUsers |-> newUsers,
                    deletableUsers |-> deletableUsers, userName |-> userName]]
    /\ prior' = [prior EXCEPT ![p] =
                   [again |-> /\ pc[p] = "done"
                              /\ call[p].op = "updateGroupUsers"
                              /\ result[p].status = Ok
                              /\ call[p].groupId = groupId
                              /\ call[p].newUsers = newUsers,
                    kept |-> /\ pc[p] = "done"
                             /\ call[p].op = "updateGroupUsers"
                             /\ Range(Rows(groupId, newUsers, userName))
                                    \ DeleteTargets(Range(Rows(groupId, newUsers, userName)),
                                                     call[p].deletableUsers) # {},
                    raced |-> \E q \in Procs \ {p} : InFlight(q)]]
    /\ result' = [result EXCEPT ![p] = NoResult]
    /\ tx' = [tx EXCEPT ![p] = NoTx]
    /\ pre' = [pre EXCEPT ![p] = Snapshot]
    /\ UNCHANGED <<groups, nextId, members, created, named>>

\* the same caller calls again with the group id and add set of the call that just returned
CallAgain(p, deletableUsers) ==
    /\ pc[p] = "done"
    /\ call[p].op = "updateGroupUsers"
    /\ Len(call[p].newUsers) + Cardinality(deletableUsers) <= MaxBatch
    /\ UpdateGroupUsers(p, call[p].groupId, call[p].newUsers, deletableUsers, call[p].userName)

\* the handler rejected or the commit failed: roll back, the call throws `status`
Reject(p, status, t) ==
    /\ members' = OnReject(members, t)
    /\ pc' = [pc EXCEPT ![p] = "done"]
    /\ result' = [result EXCEPT ![p] = Result(status)]
    /\ tx' = [tx EXCEPT ![p] = [NoTx EXCEPT !.log = t.log]]
    /\ UNCHANGED <<groups, nextId, call, pre, prior, created, named>>

Continue(p, stage, t) ==
    /\ pc' = [pc EXCEPT ![p] = stage]
    /\ tx' = [tx EXCEPT ![p] = t]
    /\ UNCHANGED <<groups, nextId, members, call, result, pre, prior, created, named>>

\* await this.addNewUsersToGroup(groupId, newUsers, userName, tx)
InsertStep(p) ==
    /\ pc[p] = "insert"
    /\ LET c == call[p]
           rows == Rows(c.groupId, c.newUsers, c.userName)
           \* rows another open transaction is deleting are decided when it ends
           view == StmtView(members, tx[p], TRUE) \ OthersDeleted(p)
           storage == InsertOutcome(view, groups, rows)
           waits == /\ storage = Ok
                    /\ Pairs(Range(rows)) \cap Pairs(OthersInserted(p) \cup OthersDeleted(p)) # {}
       IN  \E status \in {storage, ConnectivityFailure} :
               /\ status # ConnectivityFailure => ~waits
               /\ LET ok == status = Ok
                      t == Logged([tx[p] EXCEPT !.ins =
                                      IF ok THEN @ \cup Inserted(view, rows) ELSE @],
                                  "insert", ok)
                  IN  IF AfterInsert(ok) = "delete"
                      THEN Continue(p, "delete", t)
                      ELSE Reject(p, status, t)

\* await this.deleteOldUsersFromGroup(deletableUsers, tx)
DeleteStep(p) ==
    /\ pc[p] = "delete"
    /\ LET c == call[p]
           view == StmtView(members, tx[p], TRUE)
           targets == DeleteTargets(view, c.deletableUsers)
           waits == DeleteTargets(OthersDeleted(p), c.deletableUsers) # {}
       IN  \E status \in {Ok, ConnectivityFailure} :
               /\ status = Ok => ~waits
               /\ IF status = Ok
                  THEN Continue(p, "commit",
                           Logged([tx[p] EXCEPT !.ins = @ \ targets,
                                                !.del = @ \cup (targets \cap members)],
                                  "delete", TRUE))
                  ELSE Reject(p, status, Logged(tx[p], "delete", FALSE))

\* the handler resolved: COMMIT
CommitStep(p) ==
    /\ pc[p] = "commit"
    /\ \E status \in {Ok, ConnectivityFailure} :
           IF status = Ok
           THEN /\ members' = Committed(members, tx[p])
                /\ pc' = [pc EXCEPT ![p] = "done"]
                /\ result' = [result EXCEPT ![p] = Result(Ok)]
                /\ tx' = [tx EXCEPT ![p] = [NoTx EXCEPT !.log = tx[p].log]]
                /\ UNCHANGED <<groups, nextId, call, pre, prior, created, named>>
           ELSE Reject(p, status, tx[p])

\* the caller is done with the result of its last call
Forget(p) ==
    /\ pc[p] = "done"
    /\ pc' = [pc EXCEPT ![p] = "idle"]
    /\ call' = [call EXCEPT ![p] = NoCall]
    /\ result' = [result EXCEPT ![p] = NoResult]
    /\ tx' = [tx EXCEPT ![p] = NoTx]
    /\ pre' = [pre EXCEPT ![p] = NoPre]
    /\ prior' = [prior EXCEPT ![p] = NoPrior]
    /\ UNCHANGED <<groups, nextId, members, created, named>>

----------------------------------------------------------------------------
(* One caller, one call at a time.  Spec: the operations that read and      *)
(* write group_user, with groups created, looked up and deleted under them. *)
(* SpecGroups: the operations on the groups table alone.                    *)

Caller == CHOOSE p \in Procs : \A q \in Procs : p <= q

GroupInputs == [name : Names, description : Descriptions]
GroupModels == [id : GroupIds, name : Names, description : Descriptions]

Next ==
    \/ \E g \in GroupInputs : Create(Caller, g)
    \/ \E id \in GroupIds : Delete(Caller, id)
    \/ DeleteAll(Caller)
    \/ \E id \in GroupIds : Get(Caller, id)
    \/ \E id \in GroupIds : CallExists(Caller, id)
    \/ \E ids \in SUBSET GroupIds : GetAllUsersByGroups(Caller, ids)
    \/ \E id \in GroupIds, u \in UserNames :
           \E c \in Batches(GroupUsers) :
               c.deletableUsers = {} /\ AddNewUsersToGroup(Caller, id, c.newUsers, u)
    \/ \E c \in Batches(GroupUsers) :
           c.newUsers = <<>> /\ DeleteOldUsersFromGroup(Caller, c.deletableUsers)
    \/ \E id \in GroupIds, u \in UserNames :
           \E c \in Batches(GroupUsers) :
               pc[Caller] = "idle"
               /\ UpdateGroupUsers(Caller, id, c.newUsers, c.deletableUsers, u)
    \/ \E R \in SUBSET GroupUsers : CallAgain(Caller, R)
    \/ InsertStep(Caller)
    \/ DeleteStep(Caller)
    \/ CommitStep(Caller)
    \/ Forget(Caller)

Spec == Init /\ [][Next]_vars

NextGroups ==
    \/ \E g \in GroupInputs : Create(Caller, g)
    \/ \E g \in GroupModels : Update(Caller, g)
    \/ \E id \in GroupIds : Delete(Caller, id)
    \/ DeleteAll(Caller)
    \/ \E id \in GroupIds : Get(Caller, id)
    \/ GetAll(Caller)
    \/ \E id \in GroupIds : CallExists(Caller, id)
    \/ \E n \in Names : CallExistsWithName(Caller, n)
    \/ Forget(Caller)

SpecGroups == Init /\ [][NextGroups]_vars

----------------------------------------------------------------------------
(* SpecConc: two callers, each in one updateGroupUsers call, statements interleaved *)

ConcGroup == [id |-> 1, name |-> "admins", description |-> "team"]

ConcTables ==
    {T \in SUBSET [group_id : {ConcGroup.id}, user_id : Users, type : Types, created_by : UserNames] :
        Cardinality(Pairs(T)) = Cardinality(T)}

InitConc ==
    /\ groups = {ConcGroup}
    /\ nextId = ConcGroup.id + 1
    /\ members \in ConcTables
    /\ pc = [p \in Procs |-> "idle"]
    /\ call = [p \in Procs |-> NoCall]
    /\ result = [p \in Procs |-> NoResult]
    /\ tx = [p \in Procs |-> NoTx]
    /\ pre = [p \in Procs |-> NoPre]
    /\ prior = [p \in Procs |-> NoPrior]
    /\ created = {ConcGroup.name}
    /\ named = {ConcGroup.name}

ConcGroupUsers == {d \in GroupUsers : d.groupId \in {g.id : g \in groups}}

NextConc ==
    \E p \in Procs :
        \/ \E id \in {g.id : g \in groups}, u \in UserNames :
               \E c \in Batches(ConcGroupUsers) :
                   pc[p] = "idle" /\ UpdateGroupUsers(p, id, c.newUsers, c.deletableUsers, u)
        \/ InsertStep(p)
        \/ DeleteStep(p)
        \/ CommitStep(p)

SpecConc == InitConc /\ [][NextConc]_vars

----------------------------------------------------------------------------
(* Properties *)

Done(p, op) == pc[p] = "done" /\ call[p].op = op
Status(p) == result[p].status

\* the rows and pairs an updateGroupUsers call of p names
AddRows(p) == Range(Rows(call[p].groupId, call[p].newUsers, call[p].userName))
AddPairs(p) == Pairs(AddRows(p))
RemovePairs(p) == {<<d.groupId, d.userId>> : d \in call[p].deletableUsers}

InsertedOk == [stmt |-> "insert", ok |-> TRUE]

\* C1: an updateGroupUsers call that fails at the insert, at the delete or at
\* the commit leaves both tables exactly as they were when it was called.
C1_AllOrNothing ==
    \A p \in Procs :
        Done(p, "updateGroupUsers") /\ Status(p) # Ok =>
            members = pre[p].members /\ groups = pre[p].groups

\* a call whose non-empty insert completed and whose delete then failed
C1_Witness ==
    \E p \in Procs :
        /\ Done(p, "updateGroupUsers")
        /\ call[p].newUsers # <<>>
        /\ tx[p].log = <<InsertedOk, [stmt |-> "delete", ok |-> FALSE]>>
        /\ Status(p) = ConnectivityFailure

\* C2: after a successful call whose add and remove sets are disjoint, every
\* added pair is stored with the type the add set gives it and no removed pair
\* is stored.
C2_AddedPresentRemovedAbsent ==
    \A p \in Procs :
        Done(p, "updateGroupUsers") /\ Status(p) = Ok /\ AddPairs(p) \cap RemovePairs(p) = {} =>
            /\ \A i \in 1..Len(call[p].newUsers) :
                   \E r \in members :
                       /\ Pair(r) = <<call[p].groupId, call[p].newUsers[i].user.id>>
                       /\ r.type = call[p].newUsers[i].type
            /\ RemovePairs(p) \cap Pairs(members) = {}

\* a successful call that added an owner and removed a pair that was stored
C2_Witness ==
    \E p \in Procs :
        /\ Done(p, "updateGroupUsers") /\ Status(p) = Ok
        /\ AddPairs(p) \cap RemovePairs(p) = {}
        /\ \E i \in 1..Len(call[p].newUsers) : call[p].newUsers[i].type = "owner"
        /\ RemovePairs(p) \cap Pairs(pre[p].members) # {}

\* C3: the committed group_user table never holds two rows for one
\* (group id, user id) pair.
C3_OneRowPerPair ==
    \A r1, r2 \in members : Pair(r1) = Pair(r2) => r1 = r2

\* an insert of a pair that is already stored, with another type, was refused
C3_Witness ==
    \E p \in Procs :
        /\ pc[p] = "done" /\ call[p].op \in {"updateGroupUsers", "addNewUsersToGroup"}
        /\ Status(p) = ConstraintViolation
        /\ \E i \in 1..Len(call[p].newUsers) : \E r \in members :
               /\ Pair(r) = <<call[p].groupId, call[p].newUsers[i].user.id>>
               /\ r.type # call[p].newUsers[i].type

\* C4 as stated: a successful call leaves the groups table alone and leaves the
\* membership set equal to (old set minus R) plus the rows of A.
C4_MinusThenPlus ==
    \A p \in Procs :
        Done(p, "updateGroupUsers") /\ Status(p) = Ok =>
            /\ groups = pre[p].groups
            /\ members = {r \in pre[p].members : Pair(r) \notin RemovePairs(p)} \cup AddRows(p)

\* C4 amended: a successful call leaves the groups table alone, leaves every row
\* whose pair is neither added nor listed for removal as it was, and leaves the
\* membership set equal to (old set plus the rows of A) minus R.
C4_PlusThenMinus ==
    \A p \in Procs :
        Done(p, "updateGroupUsers") /\ Status(p) = Ok =>
            /\ groups = pre[p].groups
            /\ \A r \in pre[p].members :
                   Pair(r) \notin AddPairs(p) \cup RemovePairs(p) => r \in members
            /\ members = {r \in pre[p].members \cup AddRows(p) : Pair(r) \notin RemovePairs(p)}

\* a successful add-and-remove that left alone a row of another group for a
\* user it removed from this group
C4_Witness ==
    \E p \in Procs :
        /\ Done(p, "updateGroupUsers") /\ Status(p) = Ok
        /\ call[p].newUsers # <<>>
        /\ RemovePairs(p) \cap Pairs(pre[p].members) # {}
        /\ \E r \in members :
               /\ Pair(r) \notin AddPairs(p) \cup RemovePairs(p)
               /\ r.user_id \in {d.userId : d \in call[p].deletableUsers}

\* C5 as stated: a second call with the group id and non-empty add set of the
\* call that just succeeded fails with a constraint violation (a call the
\* gateway failed to carry out is left aside).
C5_SecondCallFails ==
    \A p \in Procs :
        /\ Done(p, "updateGroupUsers") /\ prior[p].again
        /\ call[p].newUsers # <<>>
        /\ Status(p) # ConnectivityFailure
        => Status(p) = ConstraintViolation

\* C5 amended: when the first call did not itself remove every pair it added,
\* the second call never succeeds: it fails with a constraint violation, or
\* with the gateway's own failure.
C5_SecondCallFailsWhenKept ==
    \A p \in Procs :
        Done(p, "updateGroupUsers") /\ prior[p].again /\ prior[p].kept =>
            Status(p) \in {ConstraintViolation, ConnectivityFailure}

\* a repeated call refused with a constraint violation
C5_Witness ==
    \E p \in Procs :
        /\ Done(p, "updateGroupUsers") /\ prior[p].again /\ prior[p].kept
        /\ Status(p) = ConstraintViolation
        /\ tx[p].log = <<[stmt |-> "insert", ok |-> FALSE]>>

\* C6: for an id with no row in groups, get fails with NotFound and exists
\* returns false, and neither call changes a table.
C6_MissingGroup ==
    \A p \in Procs :
        /\ Done(p, "get") /\ ~(\E g \in groups : g.id = call[p].id) => Status(p) = NotFound
        /\ Done(p, "exists") /\ ~(\E g \in groups : g.id = call[p].id) =>
               result[p] = BoolResult(FALSE)
        /\ Done(p, "get") \/ Done(p, "exists") =>
               groups = pre[p].groups /\ members = pre[p].members

\* get of an id that was created and then deleted, while another group and its
\* members are stored
C6_Witness ==
    \E p \in Procs :
        /\ Done(p, "get") /\ Status(p) = NotFound
        /\ call[p].id < nextId
        /\ groups # {}
        /\ members # {}

BothRaced ==
    /\ \A p \in Procs : Done(p, "updateGroupUsers")
    /\ \E p \in Procs : prior[p].raced
    /\ \E p, q \in Procs : p # q /\ AddPairs(p) \cap AddPairs(q) # {}

SharedPairs == {x \in Pairs(UNION {AddRows(p) : p \in Procs}) : \A p \in Procs : x \in AddPairs(p)}

\* the table a call of p leaves when it alone is applied to the table it started from
AppliedAlone(p) == {r \in pre[p].members \cup AddRows(p) : Pair(r) \notin RemovePairs(p)}

\* C8 as stated: of two concurrent calls whose add sets share a pair, one
\* succeeds and the other fails with a constraint violation, the failed call
\* persists nothing and the shared pair is stored exactly once (runs in which
\* the gateway itself failed are left aside).
C8_OneWinsOneFails ==
    BothRaced /\ (\A p \in Procs : Status(p) # ConnectivityFailure) =>
        \E p, q \in Procs :
            /\ p # q
            /\ Status(p) = Ok
            /\ Status(q) = ConstraintViolation
            /\ members = AppliedAlone(p)
            /\ \A x \in SharedPairs : Cardinality({r \in members : Pair(r) = x}) = 1

\* C8 amended: of two concurrent calls whose add sets share a pair, the shared
\* pair is never stored twice, a call that fails persists none of its adds or
\* removes, and both succeed only when one of them also removes the shared pair.
C8_NeverBothStore ==
    BothRaced =>
        /\ \A x \in SharedPairs : Cardinality({r \in members : Pair(r) = x}) <= 1
        /\ \A p, q \in Procs :
               p # q /\ Status(p) # Ok =>
                   members = IF Status(q) = Ok THEN AppliedAlone(q) ELSE pre[q].members
        /\ (\A p \in Procs : Status(p) = Ok) =>
               \A x \in SharedPairs : \E p \in Procs : x \in RemovePairs(p)

\* two concurrent calls adding the same pair: one committed it, the other was
\* refused with a constraint violation after its insert had waited
C8_Witness ==
    /\ BothRaced
    /\ \E p, q \in Procs :
           /\ Status(p) = Ok
           /\ Status(q) = ConstraintViolation
           /\ SharedPairs \cap Pairs(members) # {}
           /\ SharedPairs \cap Pairs(pre[q].members) = {}

\* C9: the statements of one call run in sequence: a delete is only ever issued
\* as the second statement, after an insert that succeeded, and after a failed
\* insert no delete is executed.
C9_DeleteOnlyAfterInsert ==
    \A p \in Procs :
        LET log == tx[p].log
        IN  /\ Len(log) <= 2
            /\ Len(log) >= 1 => log[1].stmt = "insert"
            /\ \A i \in 1..Len(log) :
                   log[i].stmt = "delete" => i = 2 /\ log[1] = InsertedOk
            /\ Len(log) >= 1 /\ ~log[1].ok => Len(log) = 1
            /\ pc[p] = "delete" => log = <<InsertedOk>>

\* a call that returned after its insert failed, with no delete in its log
C9_Witness ==
    \E p \in Procs :
        /\ Done(p, "updateGroupUsers")
        /\ call[p].deletableUsers # {}
        /\ Status(p) = ConstraintViolation
        /\ tx[p].log = <<[stmt |-> "insert", ok |-> FALSE]>>

\* C10: when a pair is in both the add set and the remove set of a call that
\* succeeds, the pair is not stored afterwards.
C10_RemovalWins ==
    \A p \in Procs :
        Done(p, "updateGroupUsers") /\ Status(p) = Ok =>
            (AddPairs(p) \cap RemovePairs(p)) \cap Pairs(members) = {}

\* a successful call that added and removed the same pair
C10_Witness ==
    \E p \in Procs :
        /\ Done(p, "updateGroupUsers") /\ Status(p) = Ok
        /\ AddPairs(p) \cap RemovePairs(p) # {}
        /\ tx[p].log = <<InsertedOk, [stmt |-> "delete", ok |-> TRUE]>>

====
